---- MODULE Spec2Model ----
(***************************************************************************)
(* CAnitiser: the in-cluster scan orchestrator (ca-nitiser-k8s.py) and the *)
(* classification engine (ca-analyse.py).                                  *)
(*                                                                         *)
(* Strings are sequences of one-character strings, so that strip, lower,   *)
(* startswith, "in", splitlines and split are computed as Python computes  *)
(* them.                                                                   *)
(*                                                                         *)
(* The specifications share the variables:                                 *)
(*   Spec          one run of ca-nitiser-k8s.py main against a cluster     *)
(*   SpecDuo       two orchestrators scanning the same image at once       *)
(*   SpecParse     the two log parsers applied to one log text             *)
(*   SpecLocal     one run of ca-nitiser.py main                           *)
(*   SpecClassify  normalize_subject / classify_cert on one subject        *)
(*   SpecAnalyse   one run of the report loop of ca-analyse.py main, then  *)
(*                 build_html of ca-report-html.py on the report written   *)
(*   SpecUpsert    two upsert_report calls of push-report.py on one name   *)
(***************************************************************************)
EXTENDS Integers, Sequences, FiniteSets, TLC

VARIABLES
    \* ---- ca-nitiser-k8s.py: the cluster
    jobs,           \* job name -> "absent" | "active" | "Complete" | "Failed"
    pods,           \* job name -> TRUE iff a pod labelled job-name=<name> exists
    delete_calls,   \* job names a delete request was issued for
    job_body,       \* job name -> the V1Job submitted under that name, or None
    \* ---- ca-nitiser-k8s.py: main and extract_certs_with_job
    pc,             \* position of the orchestrator
    todo,           \* sorted images still to scan (head = current image)
    job_name,       \* local of extract_certs_with_job
    created,        \* TRUE iff this invocation's create call made the job
    phase,          \* local of extract_certs_with_job
    elapsed,        \* time.time() - start inside wait_for_job
    pod_name,       \* local of extract_certs_with_job
    logs,           \* local of extract_certs_with_job
    certs,          \* value returned by extract_certs_with_job
    result,         \* main's result list
    raised,         \* the API call whose exception was raised in this scan, or None
    orch,           \* SpecDuo: orchestrator -> locals of its extract_certs_with_job
    workload,       \* SpecLocal: the pod items "kubectl get pods -A" returned
    \* ---- ca-analyse.py
    whitelist,      \* policy.get("whitelist", [])
    blacklist,      \* policy.get("blacklist", [])
    subject,        \* argument of normalize_subject / classify_cert
    norm,           \* value returned by normalize_subject
    cls,            \* value returned by classify_cert
    cpc,            \* position of the classify driver
    images_data,    \* entries still to classify (head = current entry)
    certs_raw,      \* certificates of the current entry still to classify
    flat_certs,     \* classified certificates of the current entry
    status,         \* status of the current entry
    report,         \* main's report list
    apc,            \* position of ca-analyse main
    \* ---- ca-report-html.py and push-report.py, the consumers of the report
    rows_html,      \* build_html: the rows of the main table
    custom_object,  \* the CaImageReport the API server holds under the name, or None
    upserter        \* SpecUpsert: caller -> locals of its upsert_report call

scanVars == <<jobs, pods, delete_calls, job_body, pc, todo, job_name, created,
              phase, elapsed, pod_name, logs, certs, result, raised, orch, workload>>
classifyVars == <<subject, norm, cls, cpc>>
policyVars == <<whitelist, blacklist>>
analyseVars == <<images_data, certs_raw, flat_certs, status, report, apc>>
downstreamVars == <<rows_html, custom_object, upserter>>
vars == <<scanVars, classifyVars, policyVars, analyseVars, downstreamVars>>

None == "none"

-----------------------------------------------------------------------------
(* Python str operations on sequences of characters *)

UpperLetters == <<"A","B","C","D","E","F","G","H","I","J","K","L","M",
                  "N","O","P","Q","R","S","T","U","V","W","X","Y","Z">>
LowerLetters == <<"a","b","c","d","e","f","g","h","i","j","k","l","m",
                  "n","o","p","q","r","s","t","u","v","w","x","y","z">>

Whitespace == {" ", "\t", "\n", "\r"}

lower_char(c) ==
    IF \E i \in DOMAIN UpperLetters : UpperLetters[i] = c
    THEN LowerLetters[CHOOSE i \in DOMAIN UpperLetters : UpperLetters[i] = c]
    ELSE c

lower(s) == [i \in 1..Len(s) |-> lower_char(s[i])]

RECURSIVE lstrip(_)
lstrip(s) ==
    IF s # <<>> /\ Head(s) \in Whitespace THEN lstrip(Tail(s)) ELSE s

RECURSIVE rstrip(_)
rstrip(s) ==
    IF s # <<>> /\ s[Len(s)] \in Whitespace
    THEN rstrip(SubSeq(s, 1, Len(s) - 1))
    ELSE s

strip(s) == rstrip(lstrip(s))

startswith(s, p) == Len(s) >= Len(p) /\ SubSeq(s, 1, Len(p)) = p

\* sub in s
contains(sub, s) ==
    \E k \in 0..(Len(s) - Len(sub)) : SubSeq(s, k + 1, k + Len(sub)) = sub

-----------------------------------------------------------------------------
(* ca-analyse.py: normalize_subject and classify_cert *)

SubjectPrefix == <<"s","u","b","j","e","c","t","=">>

normalize_subject(subj) ==
    LET s0 == strip(subj)
        s1 == IF startswith(lower(s0), SubjectPrefix)
              THEN lstrip(SubSeq(s0, Len(SubjectPrefix) + 1, Len(s0)))
              ELSE s0
    IN  lower(s1)

\* mutant: the pattern is compared without pat.lower()
RECURSIVE any_pattern_in_case_sensitive(_, _)
any_pattern_in_case_sensitive(pats, s) ==
    IF pats = <<>> THEN FALSE
    ELSE IF contains(Head(pats), s) THEN TRUE
    ELSE any_pattern_in_case_sensitive(Tail(pats), s)

\* for pat in pats: if pat.lower() in s: return True
RECURSIVE any_pattern_in(_, _)
any_pattern_in(pats, s) ==
    IF pats = <<>> THEN FALSE
    ELSE IF contains(lower(Head(pats)), s) THEN TRUE
    ELSE any_pattern_in(Tail(pats), s)

\* mutant: the whitelist loop runs before the blacklist loop
classify_cert_whitelist_first(subj, wl, bl) ==
    LET s == normalize_subject(subj)
    IN  IF any_pattern_in(wl, s) THEN "GREEN"
        ELSE IF any_pattern_in(bl, s) THEN "RED"
        ELSE "YELLOW"

\* mutant: the fall-through verdict is GREEN
classify_cert_default_green(subj, wl, bl) ==
    LET s == normalize_subject(subj)
    IN  IF any_pattern_in(bl, s) THEN "RED"
        ELSE "GREEN"

classify_cert(subj, wl, bl) ==
    LET s == normalize_subject(subj)
    IN  IF any_pattern_in(bl, s) THEN "RED"
        ELSE IF any_pattern_in(wl, s) THEN "GREEN"
        ELSE "YELLOW"

-----------------------------------------------------------------------------
(* Bounded inputs of the classification engine *)

MaxParts == 3       \* a subject is the concatenation of at most MaxParts tokens
MaxPats == 2        \* patterns per policy list

BSeq(S, n) == UNION {[1..k -> S] : k \in 0..n}

RECURSIVE Flatten(_)
Flatten(ss) == IF ss = <<>> THEN <<>> ELSE Head(ss) \o Flatten(Tail(ss))

CapitalPrefix == <<"S","u","b","j","e","c","t","=">>

SubjectTokens == {SubjectPrefix, CapitalPrefix, <<" ">>, <<"a","B">>}

Subjects == {Flatten(ts) : ts \in BSeq(SubjectTokens, MaxParts)}

Patterns == {<<"A">>, <<"t","=">>}

PatternLists == BSeq(Patterns, MaxPats)

-----------------------------------------------------------------------------
(* SpecClassify: normalize_subject and classify_cert applied to one subject *)

ScanIdle ==
    /\ jobs = <<>> /\ pods = <<>> /\ delete_calls = {} /\ job_body = <<>>
    /\ raised = None /\ orch = <<>> /\ workload = <<>>
    /\ pc = "idle" /\ todo = <<>> /\ job_name = None /\ created = FALSE
    /\ phase = None /\ elapsed = 0 /\ pod_name = None /\ logs = None
    /\ certs = <<>> /\ result = <<>>

ClassifyIdle == subject = <<>> /\ norm = None /\ cls = None /\ cpc = "idle"

AnalyseIdle ==
    /\ images_data = <<>> /\ certs_raw = <<>> /\ flat_certs = <<>>
    /\ status = None /\ report = <<>> /\ apc = "idle"

DownstreamIdle == rows_html = <<>> /\ custom_object = None /\ upserter = <<>>

InitClassify ==
    /\ ScanIdle
    /\ DownstreamIdle
    /\ AnalyseIdle
    /\ whitelist \in PatternLists
    /\ blacklist \in PatternLists
    /\ subject \in Subjects
    /\ norm = None
    /\ cls = None
    /\ cpc = "start"

\* s = normalize_subject(subject)
CallNormalize ==
    /\ cpc = "start"
    /\ norm' = normalize_subject(subject)
    /\ cpc' = "normalized"
    /\ UNCHANGED <<subject, cls, policyVars, downstreamVars, scanVars, analyseVars>>

\* cls = classify_cert(subj, whitelist, blacklist)
CallClassify ==
    /\ cpc = "normalized"
    /\ cls' = classify_cert(subject, whitelist, blacklist)
    /\ cpc' = "classified"
    /\ UNCHANGED <<subject, norm, policyVars, downstreamVars, scanVars, analyseVars>>

\* normalize_subject applied to its own result
CallNormalizeAgain ==
    /\ cpc = "classified"
    /\ subject' = norm
    /\ norm' = normalize_subject(norm)
    /\ cpc' = "renormalized"
    /\ UNCHANGED <<cls, policyVars, downstreamVars, scanVars, analyseVars>>

NextClassify == CallNormalize \/ CallClassify \/ CallNormalizeAgain

SpecClassify == InitClassify /\ [][NextClassify]_vars

-----------------------------------------------------------------------------
(* ca-analyse.py main: the report loop *)

MaxEntries == 2     \* entries of images.json
MaxCerts == 2       \* certificates per entry

\* has_red / has_yellow / status of one entry
\* mutant: YELLOW is tested before RED
image_status_yellow_first(flat) ==
    LET has_red == \E i \in DOMAIN flat : flat[i].classification = "RED"
        has_yellow == \E i \in DOMAIN flat : flat[i].classification = "YELLOW"
    IN  IF flat # <<>> /\ has_yellow THEN "YELLOW"
        ELSE IF has_red THEN "RED"
        ELSE "GREEN"

\* mutant: the status is the verdict of the first certificate
image_status_first_cert(flat) ==
    IF flat = <<>> THEN "GREEN"
    ELSE IF flat[1].classification = "RED" THEN "RED"
    ELSE IF flat[1].classification = "YELLOW" THEN "YELLOW"
    ELSE "GREEN"

image_status(flat) ==
    LET has_red == \E i \in DOMAIN flat : flat[i].classification = "RED"
        has_yellow == \E i \in DOMAIN flat : flat[i].classification = "YELLOW"
    IN  IF has_red THEN "RED"
        ELSE IF flat # <<>> /\ has_yellow THEN "YELLOW"
        ELSE "GREEN"

CertSubjects == {<<"a">>, CapitalPrefix \o <<"B">>}

CertRecords == {[path |-> <<"/","p">>, subject |-> s] : s \in CertSubjects}

CertLists == BSeq(CertRecords, MaxCerts)

\* images.json as ca-nitiser writes it: one entry per image, images ascending
ImagesData ==
    UNION {{[k \in 1..n |-> [image |-> k, namespaces |-> <<"ns">>, certs |-> f[k]]]
              : f \in [1..n -> CertLists]} : n \in 0..MaxEntries}

AnalysePatternLists == {<<>>, <<<<"A">>>>, <<<<"b">>>>}

InitAnalyse ==
    /\ ScanIdle
    /\ DownstreamIdle
    /\ ClassifyIdle
    /\ whitelist \in AnalysePatternLists
    /\ blacklist \in AnalysePatternLists
    /\ images_data \in ImagesData
    /\ certs_raw = <<>>
    /\ flat_certs = <<>>
    /\ status = None
    /\ report = <<>>
    /\ apc = "entry"

\* for entry in images_data: certs_raw = entry.get("certs", []); flat_certs = []
NextEntry ==
    /\ apc = "entry"
    /\ images_data # <<>>
    /\ certs_raw' = Head(images_data).certs
    /\ flat_certs' = <<>>
    /\ apc' = "certs"
    /\ UNCHANGED <<images_data, status, report, policyVars, downstreamVars, scanVars, classifyVars>>

\* mutant: the normalized subject is written to the report
ClassifyOneNormalized ==
    /\ apc = "certs"
    /\ certs_raw # <<>>
    /\ LET cert == Head(certs_raw)
           subj == cert.subject
       IN  flat_certs' = Append(flat_certs,
               [path |-> cert.path,
                subject |-> normalize_subject(subj),
                classification |-> classify_cert(subj, whitelist, blacklist)])
    /\ certs_raw' = Tail(certs_raw)
    /\ UNCHANGED <<images_data, status, report, apc, policyVars, downstreamVars, scanVars, classifyVars>>

\* for cert in certs_raw: flat_certs.append({path, subject, classification})
ClassifyOne ==
    /\ apc = "certs"
    /\ certs_raw # <<>>
    /\ LET cert == Head(certs_raw)
           subj == cert.subject
       IN  flat_certs' = Append(flat_certs,
               [path |-> cert.path,
                subject |-> subj,
                classification |-> classify_cert(subj, whitelist, blacklist)])
    /\ certs_raw' = Tail(certs_raw)
    /\ UNCHANGED <<images_data, status, report, apc, policyVars, downstreamVars, scanVars, classifyVars>>

\* has_red, has_yellow, status
Aggregate ==
    /\ apc = "certs"
    /\ certs_raw = <<>>
    /\ status' = image_status(flat_certs)
    /\ apc' = "append"
    /\ UNCHANGED <<images_data, certs_raw, flat_certs, report, policyVars, downstreamVars, scanVars, classifyVars>>

\* report.append({image, namespaces, status, certs})
AppendReport ==
    /\ apc = "append"
    /\ report' = Append(report,
           [image |-> Head(images_data).image,
            namespaces |-> Head(images_data).namespaces,
            status |-> status,
            certs |-> flat_certs])
    /\ images_data' = Tail(images_data)
    /\ apc' = "entry"
    /\ UNCHANGED <<certs_raw, flat_certs, status, policyVars, downstreamVars, scanVars, classifyVars>>

\* out_json = json.dumps(report)
WriteReport ==
    /\ apc = "entry"
    /\ images_data = <<>>
    /\ apc' = "done"
    /\ UNCHANGED <<images_data, certs_raw, flat_certs, status, report, policyVars, downstreamVars, scanVars, classifyVars>>

(* ca-report-html.py on the report ca-analyse.py wrote *)

\* html.escape(str(s), quote=True)
esc_char(c) ==
    CASE c = "&" -> <<"&", "a", "m", "p", ";">>
      [] c = "<" -> <<"&", "l", "t", ";">>
      [] c = ">" -> <<"&", "g", "t", ";">>
      [] c = "\"" -> <<"&", "q", "u", "o", "t", ";">>
      [] c = "'" -> <<"&", "#", "x", "2", "7", ";">>
      [] OTHER -> <<c>>

esc(s) == Flatten([i \in 1..Len(s) |-> esc_char(s[i])])

\* d.get(key, default)
get(d, key, default) == IF key \in DOMAIN d THEN d[key] ELSE default

\* cert_list_html: "" for an empty list, else one <details> block with an
\* <li> per certificate
cert_list_html(title, cs, css_class) ==
    IF cs = <<>> THEN <<>>
    ELSE <<[css_class |-> css_class,
            title |-> title,
            count |-> Len(cs),
            items |-> [k \in 1..Len(cs) |->
                         [path |-> esc(get(cs[k], "path", <<>>)),
                          subject |-> esc(get(cs[k], "subject", <<>>))]]]>>

\* <span class='no-certs'>&mdash;</span>
NoCertsHtml == <<[css_class |-> "no-certs"]>>

\* the <td class='col-certs'> of one row
certs_html(item) ==
    LET bl_html == cert_list_html("Blacklisted matches",
                                  get(item, "blacklist_matches", <<>>), "bl")
        wl_html == cert_list_html("Whitelisted matches",
                                  get(item, "whitelist_matches", <<>>), "wl")
        nm_html == cert_list_html("Other certificates",
                                  get(item, "not_matched", <<>>), "nm")
        all == bl_html \o wl_html \o nm_html
    IN  IF all = <<>> THEN NoCertsHtml ELSE all

\* build_html: for idx, item in enumerate(report, start=1): rows_html.append(...)
build_rows(rep) ==
    [idx \in 1..Len(rep) |->
        [idx |-> idx,
         status |-> get(rep[idx], "status", "UNKNOWN"),
         image |-> get(rep[idx], "image", <<>>),
         namespaces |-> get(rep[idx], "namespaces", <<>>),
         certs_html |-> certs_html(rep[idx])]]

\* ca-report-html.py main: build_html(load_json(args.report))
BuildHtml ==
    /\ apc = "done"
    /\ rows_html' = build_rows(report)
    /\ apc' = "html"
    /\ UNCHANGED <<images_data, certs_raw, flat_certs, status, report, policyVars,
                   custom_object, upserter, scanVars, classifyVars>>

NextAnalyse ==
    NextEntry \/ ClassifyOne \/ Aggregate \/ AppendReport \/ WriteReport \/ BuildHtml

SpecAnalyse == InitAnalyse /\ [][NextAnalyse]_vars

-----------------------------------------------------------------------------
(* ca-nitiser-k8s.py: the cluster, main and extract_certs_with_job *)

NumImages == 2      \* distinct images found by discovery
TimeoutSec == 6     \* wait_for_job's timeout_sec argument (600 by default in the
                    \* source; run here with a small value so that the Timeout
                    \* branch is reached after a few polls)
MaxDelay == 1       \* extra seconds one poll may take beyond the sleep

poll_interval == 2

ImageRefs == 1..NumImages

\* hexdigest()[:10] of the image: opaque, one value per image
sha1_hex10(image) == <<"sha1", image>>

make_job_name(image) == <<"ca-scan-", sha1_hex10(image)>>

JobNames == {make_job_name(i) : i \in ImageRefs}

ImageOfJob(j) == CHOOSE i \in ImageRefs : make_job_name(i) = j

SCAN_NAMESPACE_DEFAULT == "ca-scanner"

\* image references are numbers here; 0 is the scanner image, never a target
SCANNER_IMAGE_DEFAULT == 0

\* mutant: the target image is not passed to the scan container
scan_job_body_without_target(name, scan_ns, image, scanner_image) ==
    [name |-> name,
     namespace |-> scan_ns,
     backoff_limit |-> 0,
     pod_labels |-> [job_name |-> name, app |-> "ca-scan"],
     restart_policy |-> "Never",
     containers |-> <<[name |-> "scan",
                       image |-> scanner_image,
                       env |-> [TARGET_IMAGE |-> scanner_image]]>>]

\* the V1Job create_scan_job builds
scan_job_body(name, scan_ns, image, scanner_image) ==
    [name |-> name,
     namespace |-> scan_ns,
     backoff_limit |-> 0,
     pod_labels |-> [job_name |-> name, app |-> "ca-scan"],
     restart_policy |-> "Never",
     containers |-> <<[name |-> "scan",
                       image |-> scanner_image,
                       env |-> [TARGET_IMAGE |-> image]]>>]

LineBreaks == {"\n", "\r"}

FirstIn(s, cs) ==
    IF \E i \in 1..Len(s) : s[i] \in cs
    THEN CHOOSE i \in 1..Len(s) : s[i] \in cs /\ \A j \in 1..(i - 1) : s[j] \notin cs
    ELSE Len(s) + 1

\* str.splitlines()
RECURSIVE splitlines(_)
splitlines(s) ==
    IF s = <<>> THEN <<>>
    ELSE LET k == FirstIn(s, LineBreaks)
             crlf == k < Len(s) /\ s[k] = "\r" /\ s[k + 1] = "\n"
             next == IF crlf THEN k + 2 ELSE k + 1
         IN  <<SubSeq(s, 1, k - 1)>> \o splitlines(SubSeq(s, next, Len(s)))

\* the loop over logs.splitlines()
RECURSIVE parse_lines(_)
parse_lines(lines) ==
    IF lines = <<>> THEN <<>>
    ELSE LET line == Head(lines)
             k == FirstIn(line, {"\t"})
             path == strip(SubSeq(line, 1, k - 1))
             subj == strip(SubSeq(line, k + 1, Len(line)))
         IN  IF k > Len(line) THEN parse_lines(Tail(lines))
             ELSE IF path # <<>> /\ subj # <<>>
                  THEN <<[path |-> path, subject |-> subj]>> \o parse_lines(Tail(lines))
                  ELSE parse_lines(Tail(lines))

\* logs = logs.strip(); if not logs: return []; ...; return certs
parse_logs(text) ==
    LET stripped == strip(text)
    IN  IF stripped = <<>> THEN <<>> ELSE parse_lines(splitlines(stripped))

\* mutant: the phase is not looked at before parsing
certs_after_logs_ignoring_phase(ph, text) == parse_logs(text)

\* extract_certs_with_job from the phase check on
certs_after_logs(ph, text) ==
    IF ph # "Complete" THEN <<>> ELSE parse_logs(text)

\* what the scan container's log can hold when it is read
LogTexts ==
    { <<>>,
      <<"x", "\n">>,
      <<"/", "p", "\t", "s", "\n">>,
      <<"x", "\n", "/", "p", "\t", "s", "\n", "\t", "s", "\n", "/", "q", "\t", "S", "\n">> }

InitScan ==
    /\ ClassifyIdle
    /\ DownstreamIdle
    /\ AnalyseIdle
    /\ whitelist = <<>>
    /\ blacklist = <<>>
    \* nothing deletes a scan job, so jobs of an earlier run may still be there
    /\ jobs \in [JobNames -> {"absent", "active", "Complete", "Failed"}]
    /\ pods \in [JobNames -> BOOLEAN]
    /\ \A j \in JobNames : pods[j] => jobs[j] # "absent"
    /\ delete_calls = {}
    /\ job_body = [j \in JobNames |->
           IF jobs[j] = "absent" THEN None
           ELSE scan_job_body(j, SCAN_NAMESPACE_DEFAULT, ImageOfJob(j),
                              SCANNER_IMAGE_DEFAULT)]
    /\ raised = None
    /\ orch = <<>>
    /\ workload = <<>>
    /\ pc = "main"
    /\ todo = [k \in 1..NumImages |-> k]
    /\ job_name = None
    /\ created = FALSE
    /\ phase = None
    /\ elapsed = 0
    /\ pod_name = None
    /\ logs = None
    /\ certs = <<>>
    /\ result = <<>>

others == <<classifyVars, policyVars, downstreamVars, analyseVars, orch, workload>>

quiet == <<raised, job_body, others>>

\* for image, info in sorted(images_info.items()): ...
MainNextImage ==
    /\ pc = "main"
    /\ todo # <<>>
    /\ pc' = "create"
    /\ job_name' = None
    /\ created' = FALSE
    /\ phase' = None
    /\ elapsed' = 0
    /\ pod_name' = None
    /\ logs' = None
    /\ certs' = <<>>
    /\ raised' = None
    /\ UNCHANGED <<jobs, pods, delete_calls, job_body, todo, result, others>>

\* mutant: the pod is looked up right after the submission, before the wait
CreateScanJobThenLookup ==
    /\ pc = "create"
    /\ LET name == make_job_name(Head(todo))
       IN  /\ IF jobs[name] = "absent"
              THEN /\ jobs' = [jobs EXCEPT ![name] = "active"]
                   /\ job_body' = [job_body EXCEPT ![name] =
                          scan_job_body(name, SCAN_NAMESPACE_DEFAULT, Head(todo),
                                        SCANNER_IMAGE_DEFAULT)]
                   /\ created' = TRUE
              ELSE /\ jobs' = jobs
                   /\ job_body' = job_body
                   /\ created' = FALSE
           /\ job_name' = name
           /\ pod_name' = IF pods[name] THEN <<"pod", name>> ELSE None
    /\ elapsed' = 0
    /\ pc' = "wait"
    /\ UNCHANGED <<pods, delete_calls, todo, phase, logs, certs, result,
                   raised, others>>

\* mutant: on 409 the existing job is deleted and submitted again
CreateScanJobReplacesExisting ==
    /\ pc = "create"
    /\ LET name == make_job_name(Head(todo))
       IN  /\ jobs' = [jobs EXCEPT ![name] = "active"]
           /\ pods' = [pods EXCEPT ![name] = FALSE]
           /\ job_body' = [job_body EXCEPT ![name] =
                  scan_job_body(name, SCAN_NAMESPACE_DEFAULT, Head(todo),
                                SCANNER_IMAGE_DEFAULT)]
           /\ created' = TRUE
           /\ job_name' = name
    /\ elapsed' = 0
    /\ pc' = "wait"
    /\ UNCHANGED <<delete_calls, todo, phase, pod_name, logs, certs, result,
                   raised, others>>

\* create_scan_job: create_namespaced_job, 409 means the job exists and is reused
CreateScanJob ==
    /\ pc = "create"
    /\ LET name == make_job_name(Head(todo))
       IN  /\ IF jobs[name] = "absent"
              THEN /\ jobs' = [jobs EXCEPT ![name] = "active"]
                   /\ job_body' = [job_body EXCEPT ![name] =
                          scan_job_body(name, SCAN_NAMESPACE_DEFAULT, Head(todo),
                                        SCANNER_IMAGE_DEFAULT)]
                   /\ created' = TRUE
              ELSE /\ jobs' = jobs
                   /\ job_body' = job_body
                   /\ created' = FALSE
           /\ job_name' = name
    /\ elapsed' = 0
    /\ pc' = "wait"
    /\ UNCHANGED <<pods, delete_calls, todo, phase, pod_name, logs, certs, result,
                   raised, others>>

\* create_scan_job: an ApiException with a status other than 409 is re-raised
CreateScanJobRaises ==
    /\ pc = "create"
    /\ pc' = "error"
    /\ raised' = "create_namespaced_job"
    /\ UNCHANGED <<jobs, pods, delete_calls, todo, job_name, created, phase,
                   elapsed, pod_name, logs, certs, result, job_body, others>>

\* wait_for_job: if time.time() - start > timeout_sec: return "Timeout"
WaitTimeout ==
    /\ pc = "wait"
    /\ elapsed > TimeoutSec
    /\ phase' = "Timeout"
    /\ pc' = "pod"
    /\ UNCHANGED <<jobs, pods, delete_calls, todo, job_name, created, elapsed,
                   pod_name, logs, certs, result, quiet>>

\* wait_for_job: the job read shows Complete=True
WaitComplete ==
    /\ pc = "wait"
    /\ elapsed <= TimeoutSec
    /\ jobs[job_name] = "Complete"
    /\ phase' = "Complete"
    /\ pc' = "pod"
    /\ UNCHANGED <<jobs, pods, delete_calls, todo, job_name, created, elapsed,
                   pod_name, logs, certs, result, quiet>>

\* wait_for_job: the job read shows Failed=True
WaitFailed ==
    /\ pc = "wait"
    /\ elapsed <= TimeoutSec
    /\ jobs[job_name] = "Failed"
    /\ phase' = "Failed"
    /\ pc' = "pod"
    /\ UNCHANGED <<jobs, pods, delete_calls, todo, job_name, created, elapsed,
                   pod_name, logs, certs, result, quiet>>

\* wait_for_job: no terminal condition yet, time.sleep(2)
WaitSleep ==
    /\ pc = "wait"
    /\ elapsed <= TimeoutSec
    /\ jobs[job_name] = "active"
    /\ \E d \in poll_interval..(poll_interval + MaxDelay) : elapsed' = elapsed + d
    /\ UNCHANGED <<jobs, pods, delete_calls, pc, todo, job_name, created, phase,
                   pod_name, logs, certs, result, quiet>>

\* mutant: the exception of the job read is caught and the scan counts as Failed
WaitRaisesCaught ==
    /\ pc = "wait"
    /\ elapsed <= TimeoutSec
    /\ phase' = "Failed"
    /\ pc' = "pod"
    /\ raised' = "read_namespaced_job"
    /\ UNCHANGED <<jobs, pods, delete_calls, todo, job_name, created,
                   elapsed, pod_name, logs, certs, result, job_body, others>>

\* wait_for_job: read_namespaced_job raises
WaitRaises ==
    /\ pc = "wait"
    /\ elapsed <= TimeoutSec
    /\ pc' = "error"
    /\ raised' = "read_namespaced_job"
    /\ UNCHANGED <<jobs, pods, delete_calls, todo, job_name, created, phase,
                   elapsed, pod_name, logs, certs, result, job_body, others>>

\* mutant: a missing pod is an error
GetJobPodNameStrict ==
    /\ pc = "pod"
    /\ IF pods[job_name]
       THEN /\ pod_name' = <<"pod", job_name>>
            /\ pc' = "logs"
       ELSE /\ pod_name' = None
            /\ pc' = "error"
    /\ UNCHANGED <<jobs, pods, delete_calls, todo, job_name, created, phase,
                   elapsed, logs, certs, result, quiet>>

\* get_job_pod_name, and "if not pod_name: return []"
GetJobPodName ==
    /\ pc = "pod"
    /\ IF pods[job_name]
       THEN /\ pod_name' = <<"pod", job_name>>
            /\ pc' = "logs"
            /\ certs' = certs
       ELSE /\ pod_name' = None
            /\ pc' = "return"
            /\ certs' = <<>>
    /\ UNCHANGED <<jobs, pods, delete_calls, todo, job_name, created, phase,
                   elapsed, logs, result, quiet>>

\* get_job_pod_name: list_namespaced_pod raises
GetJobPodNameRaises ==
    /\ pc = "pod"
    /\ pc' = "error"
    /\ raised' = "list_namespaced_pod"
    /\ UNCHANGED <<jobs, pods, delete_calls, todo, job_name, created, phase,
                   elapsed, pod_name, logs, certs, result, job_body, others>>

\* get_pod_logs: read_namespaced_pod_log(...) or ""
GetPodLogs ==
    /\ pc = "logs"
    /\ \E text \in LogTexts : logs' = text
    /\ pc' = "parse"
    /\ UNCHANGED <<jobs, pods, delete_calls, todo, job_name, created, phase,
                   elapsed, pod_name, certs, result, quiet>>

\* mutant: get_pod_logs has no try/except
GetPodLogsRaises ==
    /\ pc = "logs"
    /\ pc' = "error"
    /\ raised' = "read_namespaced_pod_log"
    /\ UNCHANGED <<jobs, pods, delete_calls, todo, job_name, created, phase,
                   elapsed, pod_name, logs, certs, result, job_body, others>>

\* get_pod_logs: except Exception: return ""
GetPodLogsSwallows ==
    /\ pc = "logs"
    /\ logs' = <<>>
    /\ pc' = "parse"
    /\ raised' = "read_namespaced_pod_log"
    /\ UNCHANGED <<jobs, pods, delete_calls, todo, job_name, created, phase,
                   elapsed, pod_name, certs, result, job_body, others>>

\* extract_certs_with_job from "if phase != Complete" to "return certs"
ParseAndReturn ==
    /\ pc = "parse"
    /\ certs' = certs_after_logs(phase, logs)
    /\ pc' = "return"
    /\ UNCHANGED <<jobs, pods, delete_calls, todo, job_name, created, phase,
                   elapsed, pod_name, logs, result, quiet>>

\* main: result.append({image, namespaces, certs})
AppendResult ==
    /\ pc = "return"
    /\ result' = Append(result,
           [image |-> Head(todo), namespaces |-> <<"ns">>, certs |-> certs])
    /\ todo' = Tail(todo)
    /\ pc' = "main"
    /\ UNCHANGED <<jobs, pods, delete_calls, job_name, created, phase, elapsed,
                   pod_name, logs, certs, quiet>>

\* main: print(json.dumps(result))
PrintResult ==
    /\ pc = "main"
    /\ todo = <<>>
    /\ pc' = "done"
    /\ UNCHANGED <<jobs, pods, delete_calls, todo, job_name, created, phase,
                   elapsed, pod_name, logs, certs, result, quiet>>

(* The cluster: the job controller and the kubelet *)

\* the job controller creates the job's pod
PodCreated(j) ==
    /\ jobs[j] = "active"
    /\ ~pods[j]
    /\ pods' = [pods EXCEPT ![j] = TRUE]
    /\ UNCHANGED <<jobs, delete_calls, pc, todo, job_name, created, phase,
                   elapsed, pod_name, logs, certs, result, quiet>>

\* the scan container exits 0
JobCompletes(j) ==
    /\ jobs[j] = "active"
    /\ pods[j]
    /\ jobs' = [jobs EXCEPT ![j] = "Complete"]
    /\ UNCHANGED <<pods, delete_calls, pc, todo, job_name, created, phase,
                   elapsed, pod_name, logs, certs, result, quiet>>

\* the scan container fails (backoff_limit=0: no retry)
JobFails(j) ==
    /\ jobs[j] = "active"
    /\ pods[j]
    /\ jobs' = [jobs EXCEPT ![j] = "Failed"]
    /\ UNCHANGED <<pods, delete_calls, pc, todo, job_name, created, phase,
                   elapsed, pod_name, logs, certs, result, quiet>>

\* the pod of a finished job is garbage-collected
PodCollected(j) ==
    /\ jobs[j] \in {"Complete", "Failed"}
    /\ pods[j]
    /\ pods' = [pods EXCEPT ![j] = FALSE]
    /\ UNCHANGED <<jobs, delete_calls, pc, todo, job_name, created, phase,
                   elapsed, pod_name, logs, certs, result, quiet>>

Cluster ==
    \E j \in JobNames :
        PodCreated(j) \/ JobCompletes(j) \/ JobFails(j) \/ PodCollected(j)

Next ==
    \/ MainNextImage
    \/ CreateScanJob
    \/ CreateScanJobRaises
    \/ WaitTimeout
    \/ WaitComplete
    \/ WaitFailed
    \/ WaitSleep
    \/ WaitRaises
    \/ GetJobPodName
    \/ GetJobPodNameRaises
    \/ GetPodLogs
    \/ GetPodLogsSwallows
    \/ ParseAndReturn
    \/ AppendResult
    \/ PrintResult
    \/ Cluster

Spec == InitScan /\ [][Next]_vars

\* the poll loop of wait_for_job keeps running while the process lives
SpecFair ==
    Spec /\ WF_vars(WaitTimeout \/ WaitComplete \/ WaitFailed \/ WaitSleep \/ WaitRaises)

\* every wait_for_job call ends: each sleep adds at least poll_interval seconds
WaitEnds == (pc = "wait") ~> (pc # "wait")

-----------------------------------------------------------------------------
(* SpecDuo: two runs of ca-nitiser-k8s.py at once, each inside               *)
(* extract_certs_with_job for the same image, against one scan namespace.  *)
(* No API call fails for a reason other than the state of the namespace.   *)

Orchestrators == {1, 2}

\* a value of --scanner-image other than the default
OtherScannerImage == -1

ScannerImages == {SCANNER_IMAGE_DEFAULT, OtherScannerImage}

InitDuo ==
    /\ ClassifyIdle
    /\ DownstreamIdle
    /\ AnalyseIdle
    /\ whitelist = <<>>
    /\ blacklist = <<>>
    /\ jobs = [j \in JobNames |-> "absent"]
    /\ pods = [j \in JobNames |-> FALSE]
    /\ job_body = [j \in JobNames |-> None]
    /\ delete_calls = {}
    /\ raised = None /\ workload = <<>>
    /\ pc = "duo" /\ todo = <<>> /\ job_name = None /\ created = FALSE
    /\ phase = None /\ elapsed = 0 /\ pod_name = None /\ logs = None
    /\ certs = <<>> /\ result = <<>>
    /\ \E image \in ImageRefs :
          \E scanners \in [Orchestrators -> ScannerImages] :
              orch = [o \in Orchestrators |->
                        [image |-> image, scanner_image |-> scanners[o],
                         pc |-> "create", job_name |-> None, created |-> FALSE,
                         phase |-> None, elapsed |-> 0, pod_name |-> None,
                         logs |-> None, certs |-> <<>>]]

duoQuiet == <<delete_calls, raised, workload, pc, todo, job_name, created, phase,
              elapsed, pod_name, logs, certs, result,
              classifyVars, policyVars, downstreamVars, analyseVars>>

\* mutant: a 409 of create_namespaced_job is raised like any other status
DuoCreateScanJobConflictRaises(o) ==
    /\ orch[o].pc = "create"
    /\ LET name == make_job_name(orch[o].image)
       IN  IF jobs[name] = "absent"
           THEN /\ jobs' = [jobs EXCEPT ![name] = "active"]
                /\ job_body' = [job_body EXCEPT ![name] =
                       scan_job_body(name, SCAN_NAMESPACE_DEFAULT, orch[o].image,
                                     orch[o].scanner_image)]
                /\ orch' = [orch EXCEPT ![o].job_name = name, ![o].created = TRUE,
                                        ![o].pc = "wait"]
           ELSE /\ jobs' = jobs
                /\ job_body' = job_body
                /\ orch' = [orch EXCEPT ![o].pc = "error"]
    /\ UNCHANGED <<pods, duoQuiet>>

\* mutant: the job name also depends on the jobs already submitted
DuoCreateScanJobFreshName(o) ==
    /\ orch[o].pc = "create"
    /\ LET taken == jobs[make_job_name(orch[o].image)] # "absent"
           name == IF taken
                   THEN make_job_name(CHOOSE i \in ImageRefs : i # orch[o].image)
                   ELSE make_job_name(orch[o].image)
       IN  IF jobs[name] = "absent"
           THEN /\ jobs' = [jobs EXCEPT ![name] = "active"]
                /\ job_body' = [job_body EXCEPT ![name] =
                       scan_job_body(name, SCAN_NAMESPACE_DEFAULT, orch[o].image,
                                     orch[o].scanner_image)]
                /\ orch' = [orch EXCEPT ![o].job_name = name, ![o].created = TRUE,
                                        ![o].pc = "wait"]
           ELSE /\ jobs' = jobs
                /\ job_body' = job_body
                /\ orch' = [orch EXCEPT ![o].job_name = name, ![o].created = FALSE,
                                        ![o].pc = "wait"]
    /\ UNCHANGED <<pods, duoQuiet>>

\* create_scan_job: create_namespaced_job; on 409 the existing job is reused
DuoCreateScanJob(o) ==
    /\ orch[o].pc = "create"
    /\ LET name == make_job_name(orch[o].image)
       IN  IF jobs[name] = "absent"
           THEN /\ jobs' = [jobs EXCEPT ![name] = "active"]
                /\ job_body' = [job_body EXCEPT ![name] =
                       scan_job_body(name, SCAN_NAMESPACE_DEFAULT, orch[o].image,
                                     orch[o].scanner_image)]
                /\ orch' = [orch EXCEPT ![o].job_name = name, ![o].created = TRUE,
                                        ![o].pc = "wait"]
           ELSE /\ jobs' = jobs
                /\ job_body' = job_body
                /\ orch' = [orch EXCEPT ![o].job_name = name, ![o].created = FALSE,
                                        ![o].pc = "wait"]
    /\ UNCHANGED <<pods, duoQuiet>>

\* wait_for_job: if time.time() - start > timeout_sec: return "Timeout"
\* (start is a local of wait_for_job: the elapsed time ends with the call)
DuoWaitTimeout(o) ==
    /\ orch[o].pc = "wait"
    /\ orch[o].elapsed > TimeoutSec
    /\ orch' = [orch EXCEPT ![o].phase = "Timeout", ![o].elapsed = 0, ![o].pc = "pod"]
    /\ UNCHANGED <<jobs, pods, job_body, duoQuiet>>

\* wait_for_job: the job read shows Complete=True or Failed=True
DuoWaitTerminal(o) ==
    /\ orch[o].pc = "wait"
    /\ orch[o].elapsed <= TimeoutSec
    /\ jobs[orch[o].job_name] \in {"Complete", "Failed"}
    /\ orch' = [orch EXCEPT ![o].phase = jobs[orch[o].job_name], ![o].elapsed = 0,
                            ![o].pc = "pod"]
    /\ UNCHANGED <<jobs, pods, job_body, duoQuiet>>

\* wait_for_job: no terminal condition yet, time.sleep(2)
DuoWaitSleep(o) ==
    /\ orch[o].pc = "wait"
    /\ orch[o].elapsed <= TimeoutSec
    /\ jobs[orch[o].job_name] = "active"
    /\ \E d \in poll_interval..(poll_interval + MaxDelay) :
          orch' = [orch EXCEPT ![o].elapsed = @ + d]
    /\ UNCHANGED <<jobs, pods, job_body, duoQuiet>>

\* get_job_pod_name, and "if not pod_name: return []"
DuoGetJobPodName(o) ==
    /\ orch[o].pc = "pod"
    /\ IF pods[orch[o].job_name]
       THEN orch' = [orch EXCEPT ![o].pod_name = <<"pod", orch[o].job_name>>,
                                 ![o].pc = "logs"]
       ELSE orch' = [orch EXCEPT ![o].pod_name = None, ![o].certs = <<>>,
                                 ![o].pc = "return"]
    /\ UNCHANGED <<jobs, pods, job_body, duoQuiet>>

\* get_pod_logs: read_namespaced_pod_log(...) or ""
DuoGetPodLogs(o) ==
    /\ orch[o].pc = "logs"
    /\ \E text \in LogTexts : orch' = [orch EXCEPT ![o].logs = text, ![o].pc = "parse"]
    /\ UNCHANGED <<jobs, pods, job_body, duoQuiet>>

\* extract_certs_with_job from "if phase != Complete" to "return certs"
DuoParseAndReturn(o) ==
    /\ orch[o].pc = "parse"
    /\ orch' = [orch EXCEPT ![o].certs = certs_after_logs(orch[o].phase, orch[o].logs),
                            ![o].pc = "return"]
    /\ UNCHANGED <<jobs, pods, job_body, duoQuiet>>

\* the next step of orchestrator o
DuoStep(o) ==
    \/ DuoCreateScanJob(o)
    \/ DuoWaitTimeout(o)
    \/ DuoWaitTerminal(o)
    \/ DuoWaitSleep(o)
    \/ DuoGetJobPodName(o)
    \/ DuoGetPodLogs(o)
    \/ DuoParseAndReturn(o)

NextDuo ==
    \/ \E o \in Orchestrators : DuoStep(o)
    \/ Cluster

SpecDuo == InitDuo /\ [][NextDuo]_vars

-----------------------------------------------------------------------------
(* SpecParse: the parsers of the two discovery scripts on one output text *)

MaxLogLen == 4

LogChars == {"p", " ", "\t", "\n"}

\* every text of the extraction script's output, up to MaxLogLen characters
LogBlobs == UNION {[1..n -> LogChars] : n \in 0..MaxLogLen}

\* ca-nitiser.py extract_certs: the loop over proc.stdout.decode().splitlines()
RECURSIVE extract_certs_lines(_)
extract_certs_lines(lines) ==
    IF lines = <<>> THEN <<>>
    ELSE LET line == Head(lines)
             k == FirstIn(line, {"\t"})
         IN  IF k > Len(line) THEN extract_certs_lines(Tail(lines))
             ELSE <<[path |-> SubSeq(line, 1, k - 1),
                     subject |-> SubSeq(line, k + 1, Len(line))]>>
                  \o extract_certs_lines(Tail(lines))

\* ca-nitiser.py extract_certs from "certs = []" to "return certs"
extract_certs_stdout(text) == extract_certs_lines(splitlines(text))

InitParse ==
    /\ ClassifyIdle
    /\ DownstreamIdle
    /\ AnalyseIdle
    /\ whitelist = <<>>
    /\ blacklist = <<>>
    /\ jobs = <<>> /\ pods = <<>> /\ delete_calls = {} /\ job_body = <<>>
    /\ raised = None /\ orch = <<>> /\ workload = <<>>
    /\ todo = <<>> /\ job_name = None /\ created = FALSE
    /\ phase = "Complete" /\ elapsed = 0 /\ pod_name = None
    /\ result = <<>>
    /\ logs \in LogBlobs
    /\ certs = <<>>
    /\ pc = "output"

\* ca-nitiser-k8s.py extract_certs_with_job parses the pod's log
ParseJobLogs ==
    /\ pc = "output"
    /\ certs' = certs_after_logs(phase, logs)
    /\ pc' = "parsed_job"
    /\ UNCHANGED <<jobs, pods, delete_calls, todo, job_name, created, phase,
                   elapsed, pod_name, logs, result, quiet>>

\* ca-nitiser.py extract_certs parses the container's standard output
ParseRuntimeStdout ==
    /\ pc = "output"
    /\ certs' = extract_certs_stdout(logs)
    /\ pc' = "parsed_runtime"
    /\ UNCHANGED <<jobs, pods, delete_calls, todo, job_name, created, phase,
                   elapsed, pod_name, logs, result, quiet>>

NextParse == ParseJobLogs \/ ParseRuntimeStdout

SpecParse == InitParse /\ [][NextParse]_vars

-----------------------------------------------------------------------------
(* SpecLocal: one run of ca-nitiser.py main (kubectl and a container runtime) *)

MaxPods == 2

Namespaces == {1, 2}

\* the image of a container whose "image" field is missing or empty
EmptyImage == 0

\* the pod items of "kubectl get pods -A -o json": one container, and at most
\* one init container
PodItems ==
    [namespace : Namespaces,
     containers : {<<i>> : i \in ImageRefs \cup {EmptyImage}},
     initContainers : {<<>>} \cup {<<i>> : i \in ImageRefs}]

Workloads == BSeq(PodItems, MaxPods)

\* if c.get("image"): images[c["image"]].add(ns), on a dict in insertion order
add_image(images, img, ns) ==
    IF img = EmptyImage THEN images
    ELSE IF \E k \in DOMAIN images : images[k].image = img
         THEN [k \in DOMAIN images |->
                  IF images[k].image = img
                  THEN [images[k] EXCEPT !.namespaces = @ \cup {ns}]
                  ELSE images[k]]
         ELSE Append(images, [image |-> img, namespaces |-> {ns}])

\* for c in spec.get(<kind>, []): ...
RECURSIVE add_containers(_, _, _)
add_containers(images, conts, ns) ==
    IF conts = <<>> THEN images
    ELSE add_containers(add_image(images, Head(conts), ns), Tail(conts), ns)

\* for item in data.get("items", []): ...
RECURSIVE add_items(_, _)
add_items(images, items) ==
    IF items = <<>> THEN images
    ELSE LET item == Head(items)
             with_containers == add_containers(images, item.containers, item.namespace)
         IN  add_items(add_containers(with_containers, item.initContainers,
                                      item.namespace),
                       Tail(items))

\* the dict get_images_per_namespace returns, as its items() in iteration order
get_images_per_namespace(items) == add_items(<<>>, items)

\* sorted(list(namespaces))
RECURSIVE sorted(_)
sorted(S) ==
    IF S = {} THEN <<>>
    ELSE LET m == CHOOSE x \in S : \A y \in S : x <= y
         IN  <<m>> \o sorted(S \ {m})

\* what the extraction script prints inside the image
RuntimeOutputs == {<<>>, <<"/", "p", "\t", "s", "\n">>}

InitLocal ==
    /\ ClassifyIdle
    /\ DownstreamIdle
    /\ AnalyseIdle
    /\ whitelist = <<>>
    /\ blacklist = <<>>
    /\ jobs = <<>> /\ pods = <<>> /\ delete_calls = {} /\ job_body = <<>>
    /\ raised = None /\ orch = <<>>
    /\ job_name = None /\ created = FALSE
    /\ phase = None /\ elapsed = 0 /\ pod_name = None /\ logs = None
    /\ workload \in Workloads
    /\ todo = <<>>
    /\ certs = <<>>
    /\ result = <<>>
    /\ pc = "discover"

localQuiet == <<jobs, pods, delete_calls, job_body, raised, orch, job_name, created,
                phase, elapsed, pod_name, logs, workload,
                classifyVars, policyVars, downstreamVars, analyseVars>>

\* images_map = get_images_per_namespace(kubectl_cmd)
LocalDiscover ==
    /\ pc = "discover"
    /\ todo' = get_images_per_namespace(workload)
    /\ pc' = "loop"
    /\ UNCHANGED <<certs, result, localQuiet>>

\* get_images_per_namespace: kubectl fails, sys.exit(1)
LocalDiscoverExits ==
    /\ pc = "discover"
    /\ pc' = "exit"
    /\ UNCHANGED <<todo, certs, result, localQuiet>>

\* one turn of "for image, namespaces in images_map.items()": pull_image,
\* extract_certs ([] on a timeout or a non-zero exit), result.append
LocalScanImage ==
    /\ pc = "loop"
    /\ todo # <<>>
    /\ \E pull_ok \in BOOLEAN, ran_ok \in BOOLEAN, stdout \in RuntimeOutputs :
          /\ certs' = IF pull_ok /\ ran_ok THEN extract_certs_stdout(stdout) ELSE <<>>
          /\ result' = Append(result,
                 [image |-> Head(todo).image,
                  namespaces |-> sorted(Head(todo).namespaces),
                  certs |-> certs'])
    /\ todo' = Tail(todo)
    /\ UNCHANGED <<pc, localQuiet>>

\* print(json.dumps(result, indent=2))
LocalPrint ==
    /\ pc = "loop"
    /\ todo = <<>>
    /\ pc' = "done"
    /\ UNCHANGED <<todo, certs, result, localQuiet>>

NextLocal == LocalDiscover \/ LocalDiscoverExits \/ LocalScanImage \/ LocalPrint

SpecLocal == InitLocal /\ [][NextLocal]_vars

-----------------------------------------------------------------------------
(* SpecUpsert: push-report.py, two callers of upsert_report for one name.   *)
(* The API server answers by the state of the object; only the read may     *)
(* also fail with a status of its own.                                      *)

GROUP == "security.andreybondarenko.com"
VERSION == "v1alpha1"
PLURAL == "caimagereports"

Upserters == {1, 2}

ReportName == "report"
ReportNamespace == "ca-scanner"

\* sum(1 for x in entries if x.get("status") == s)
CountStatus(entries, s) == Cardinality({i \in DOMAIN entries : entries[i].status = s})

build_spec(entries, scan_name, scan_namespace) ==
    [scanRef |-> [name |-> scan_name, namespace |-> scan_namespace],
     summary |-> [totalImages |-> Len(entries),
                  green |-> CountStatus(entries, "GREEN"),
                  yellow |-> CountStatus(entries, "YELLOW"),
                  red |-> CountStatus(entries, "RED")],
     report |-> entries]

\* report.json of two runs of the pipeline
UpsertReports ==
    { <<[image |-> 1, namespaces |-> <<"ns">>, status |-> "GREEN", certs |-> <<>>]>>,
      <<[image |-> 1, namespaces |-> <<"ns">>, status |-> "RED",
         certs |-> <<[path |-> <<"/","p">>, subject |-> <<"b">>,
                      classification |-> "RED"]>>]>> }

UpsertSpecs == {build_spec(r, "scan", ReportNamespace) : r \in UpsertReports}

\* the body of create_namespaced_custom_object
custom_object_body(name, namespace, spec) ==
    [apiVersion |-> <<GROUP, VERSION>>,
     kind |-> "CaImageReport",
     metadata |-> [name |-> name, namespace |-> namespace],
     spec |-> spec]

\* statuses of the read other than found and 404
OtherStatuses == {403, 500}

Present(name) == name \in DOMAIN custom_object

InitUpsert ==
    /\ ScanIdle
    /\ ClassifyIdle
    /\ AnalyseIdle
    /\ whitelist = <<>>
    /\ blacklist = <<>>
    /\ rows_html = <<>>
    \* the report of an earlier run may be there
    /\ custom_object \in
          {<<>>} \cup {[n \in {ReportName} |->
                           custom_object_body(n, ReportNamespace, s)] : s \in UpsertSpecs}
    /\ upserter \in [Upserters -> {[pc |-> "get", exists |-> FALSE, calls |-> <<>>,
                                    spec |-> s] : s \in UpsertSpecs}]

upsertQuiet == <<rows_html, scanVars, classifyVars, policyVars, analyseVars>>

Called(u, call, http_status) ==
    Append(upserter[u].calls, [call |-> call, status |-> http_status])

\* get_namespaced_custom_object returns: exists = True
UpsertGetFound(u) ==
    /\ upserter[u].pc = "get"
    /\ Present(ReportName)
    /\ upserter' = [upserter EXCEPT ![u].exists = TRUE,
                                    ![u].calls = Called(u, "get_namespaced_custom_object", 200),
                                    ![u].pc = "write"]
    /\ UNCHANGED <<custom_object, upsertQuiet>>

\* except ApiException as e: if e.status == 404: exists = False
UpsertGetNotFound(u) ==
    /\ upserter[u].pc = "get"
    /\ ~Present(ReportName)
    /\ upserter' = [upserter EXCEPT ![u].exists = FALSE,
                                    ![u].calls = Called(u, "get_namespaced_custom_object", 404),
                                    ![u].pc = "write"]
    /\ UNCHANGED <<custom_object, upsertQuiet>>

\* except ApiException as e: ... else: raise
UpsertGetRaises(u) ==
    /\ upserter[u].pc = "get"
    /\ \E st \in OtherStatuses :
          upserter' = [upserter EXCEPT ![u].calls = Called(u, "get_namespaced_custom_object", st),
                                       ![u].pc = "error"]
    /\ UNCHANGED <<custom_object, upsertQuiet>>

\* if exists: patch_namespaced_custom_object(body={"spec": spec})
UpsertPatch(u) ==
    /\ upserter[u].pc = "write"
    /\ upserter[u].exists
    /\ IF Present(ReportName)
       THEN /\ custom_object' = [custom_object EXCEPT ![ReportName].spec = upserter[u].spec]
            /\ upserter' = [upserter EXCEPT
                   ![u].calls = Called(u, "patch_namespaced_custom_object", 200),
                   ![u].pc = "done"]
       ELSE /\ custom_object' = custom_object
            /\ upserter' = [upserter EXCEPT
                   ![u].calls = Called(u, "patch_namespaced_custom_object", 404),
                   ![u].pc = "error"]
    /\ UNCHANGED upsertQuiet

\* else: create_namespaced_custom_object(body=body); a 409 is not caught
UpsertCreate(u) ==
    /\ upserter[u].pc = "write"
    /\ ~upserter[u].exists
    /\ IF ~Present(ReportName)
       THEN /\ custom_object' = [n \in {ReportName} |->
                   custom_object_body(n, ReportNamespace, upserter[u].spec)]
            /\ upserter' = [upserter EXCEPT
                   ![u].calls = Called(u, "create_namespaced_custom_object", 201),
                   ![u].pc = "done"]
       ELSE /\ custom_object' = custom_object
            /\ upserter' = [upserter EXCEPT
                   ![u].calls = Called(u, "create_namespaced_custom_object", 409),
                   ![u].pc = "error"]
    /\ UNCHANGED upsertQuiet

NextUpsert ==
    \E u \in Upserters :
        \/ UpsertGetFound(u)
        \/ UpsertGetNotFound(u)
        \/ UpsertGetRaises(u)
        \/ UpsertPatch(u)
        \/ UpsertCreate(u)

SpecUpsert == InitUpsert /\ [][NextUpsert]_vars

-----------------------------------------------------------------------------
(* Properties of the parsers (SpecParse) *)

TabsIn(line) == Cardinality({i \in 1..Len(line) : line[i] = "\t"})

FieldsOf(line) ==
    LET k == FirstIn(line, {"\t"})
    IN  [path |-> SubSeq(line, 1, k - 1), subject |-> SubSeq(line, k + 1, Len(line))]

\* a line with exactly one tab and two fields that are non-empty once trimmed
IsRecordLine(line) ==
    /\ TabsIn(line) = 1
    /\ strip(FieldsOf(line).path) # <<>>
    /\ strip(FieldsOf(line).subject) # <<>>

RecordLines(text) == SelectSeq(splitlines(text), IsRecordLine)

Parsed == pc \in {"parsed_job", "parsed_runtime"}

\* C16: the records a parser returns are those of the lines that hold exactly
\* one tab and two fields that are non-empty once trimmed, in order (the
\* fields kept as they are or trimmed); every other line, a line with two or
\* more tabs included, gives no record.
C16_RecordIffOneTabTwoFields ==
    Parsed =>
        LET lines == RecordLines(logs)
        IN  \/ certs = [i \in DOMAIN lines |-> FieldsOf(lines[i])]
            \/ certs = [i \in DOMAIN lines |->
                          [path |-> strip(FieldsOf(lines[i]).path),
                           subject |-> strip(FieldsOf(lines[i]).subject)]]

\* a field that is not empty and has no whitespace at either end
CleanField(s) == s # <<>> /\ strip(s) = s

\* the records come from distinct lines, taken in the order of the lines
InLineOrder(recs, lines) ==
    \E f \in [1..Len(recs) -> 1..Len(lines)] :
        /\ \A i, j \in 1..Len(recs) : i < j => f[i] < f[j]
        /\ \A i \in 1..Len(recs) :
              /\ contains(recs[i].path, lines[f[i]])
              /\ contains(recs[i].subject, lines[f[i]])

\* C21: for every log text the parser ends with a list of records: at most
\* one record per line, in the order of the lines, and every record has a
\* non-empty path and a non-empty subject without leading or trailing
\* whitespace.
C21_ParseTotalAndClean ==
    Parsed =>
        /\ certs \in Seq([path : Seq(LogChars), subject : Seq(LogChars)])
        /\ Len(certs) <= Len(splitlines(logs))
        /\ InLineOrder(certs, splitlines(logs))
        /\ \A i \in DOMAIN certs :
              CleanField(certs[i].path) /\ CleanField(certs[i].subject)

-----------------------------------------------------------------------------
(* Properties of two concurrent orchestrators (SpecDuo) *)

Submitted(o) == orch[o].job_name # None

\* C11: two orchestrators scanning the same image at once target the same
\* job: exactly one of the two create calls makes it, the other gets 409,
\* does not fail and waits on the job that exists; under every interleaving
\* no orchestrator ends in an error, the wait of each is bounded and each has
\* a next step until it has returned its result.
C11_ConcurrentScansShareOneJob ==
    /\ \A o \in Orchestrators :
          /\ orch[o].pc # "error"
          /\ Submitted(o) => jobs[orch[o].job_name] # "absent"
          /\ orch[o].pc = "wait" =>
                 orch[o].elapsed <= TimeoutSec + poll_interval + MaxDelay
          \* the parse step has no guard but its position
          /\ orch[o].pc \notin {"return", "parse"} =>
                 ENABLED (\/ DuoCreateScanJob(o)
                          \/ DuoWaitTimeout(o) \/ DuoWaitTerminal(o) \/ DuoWaitSleep(o)
                          \/ DuoGetJobPodName(o) \/ DuoGetPodLogs(o))
    /\ Cardinality({o \in Orchestrators : orch[o].created}) <= 1
    /\ (\A o \in Orchestrators : Submitted(o)) =>
          /\ Cardinality({o \in Orchestrators : orch[o].created}) = 1
          /\ Cardinality({orch[o].job_name : o \in Orchestrators}) = 1
          /\ Cardinality({j \in JobNames : jobs[j] # "absent"}) = 1

C11_Witness ==
    /\ \A o \in Orchestrators : orch[o].pc = "return"
    /\ \E o \in Orchestrators : orch[o].created /\ orch[o].certs # <<>>
    /\ \E o \in Orchestrators : ~orch[o].created /\ orch[o].certs # <<>>

\* C12: the job name an orchestrator uses is make_job_name of its image and
\* nothing else: it is the same whichever scanner image the orchestrator was
\* given, however long it has waited, and whether the job was already
\* submitted by the other orchestrator or not; it is the name of the V1Job.
C12_JobNameFromImageAlone ==
    /\ \A o \in Orchestrators :
          Submitted(o) =>
              /\ orch[o].job_name = make_job_name(orch[o].image)
              /\ job_body[orch[o].job_name].name = orch[o].job_name
    /\ \A o1, o2 \in Orchestrators :
          (Submitted(o1) /\ Submitted(o2) /\ orch[o1].image = orch[o2].image) =>
              orch[o1].job_name = orch[o2].job_name

C12_Witness ==
    /\ \A o \in Orchestrators : Submitted(o)
    /\ orch[1].scanner_image # orch[2].scanner_image
    /\ orch[1].created /\ ~orch[2].created
    /\ orch[1].elapsed > 0 /\ orch[2].elapsed = 0
    /\ orch[1].job_name = orch[2].job_name

-----------------------------------------------------------------------------
(* Properties of the discovery output (SpecLocal) *)

\* the images the pods of the workload name
ImagesOf(items) ==
    {c \in ImageRefs :
        \E k \in DOMAIN items :
            \/ \E n \in DOMAIN items[k].containers : items[k].containers[n] = c
            \/ \E n \in DOMAIN items[k].initContainers : items[k].initContainers[n] = c}

\* the namespaces of the pods that name image c
NamespacesOf(items, c) ==
    {items[k].namespace : k \in
        {k \in DOMAIN items :
            \/ \E n \in DOMAIN items[k].containers : items[k].containers[n] = c
            \/ \E n \in DOMAIN items[k].initContainers : items[k].initContainers[n] = c}}

\* C17: the printed list has exactly one entry for each distinct image of the
\* workload, the entry holds all the namespaces the image was seen in, and the
\* entries are in ascending order of the image reference.
C17_OneEntryPerImageAscending ==
    pc = "done" =>
        /\ Len(result) = Cardinality(ImagesOf(workload))
        /\ \A c \in ImagesOf(workload) :
              \E k \in DOMAIN result :
                  /\ result[k].image = c
                  /\ {result[k].namespaces[n] : n \in DOMAIN result[k].namespaces}
                         = NamespacesOf(workload, c)
        /\ \A k \in 1..(Len(result) - 1) : result[k].image < result[k + 1].image

-----------------------------------------------------------------------------
(* Properties of the scan orchestrator (Spec) *)

Outcomes == {"Complete", "Failed", "Timeout"}

WaitReturned == pc \in {"pod", "logs", "parse", "return"}

ScanReturned == pc = "return"

ClassifiedCerts(cs, wl, bl) ==
    [i \in DOMAIN cs |->
        [path |-> cs[i].path,
         subject |-> cs[i].subject,
         classification |-> classify_cert(cs[i].subject, wl, bl)]]

\* C1: once extract_certs_with_job has returned for an image, whatever the
\* outcome, the scan job it created or reused no longer exists in the scan
\* namespace.
C1_JobGoneAfterReturn ==
    ScanReturned => jobs[job_name] = "absent"

\* C2: when a step after the job submission raises, a delete of the scan job
\* has been requested before the exception leaves extract_certs_with_job.
C2_DeleteAttemptedOnException ==
    (pc = "error" /\ job_name # None) => job_name \in delete_calls

\* C3: the outcome of the wait is one of Complete, Failed, Timeout; when it is
\* not Complete the scan returns no certificates, even if the pod's log holds
\* well-formed path<TAB>subject lines, and the image is classified GREEN under
\* every policy.
C3_NoCertsUnlessComplete ==
    /\ WaitReturned => phase \in Outcomes
    /\ (ScanReturned /\ phase # "Complete") =>
           /\ certs = <<>>
           /\ \A wl \in AnalysePatternLists, bl \in AnalysePatternLists :
                  image_status(ClassifiedCerts(certs, wl, bl)) = "GREEN"

C3_Witness ==
    /\ ScanReturned
    /\ phase = "Failed"
    /\ logs # None
    /\ Len(parse_logs(logs)) = 2
    /\ certs = <<>>

\* C4: wait_for_job returns Timeout only once the elapsed time exceeds the
\* timeout, Complete only for a job whose Complete condition is true, Failed
\* only for a job whose Failed condition is true; and after a Timeout the scan
\* does not return leaving the job running.
C4_WaitOutcomeAndNoJobLeftRunning ==
    /\ (WaitReturned /\ phase = "Timeout") => elapsed > TimeoutSec
    /\ (WaitReturned /\ phase = "Complete") => jobs[job_name] = "Complete"
    /\ (WaitReturned /\ phase = "Failed") => jobs[job_name] = "Failed"
    /\ (ScanReturned /\ phase = "Timeout") => jobs[job_name] # "active"

\* the API calls whose exception leaves extract_certs_with_job
FatalCalls == {"create_namespaced_job", "read_namespaced_job", "list_namespaced_pod"}

\* C13: a scan that ends Failed or Timeout, finds no pod, or whose log read
\* raises yields no certificates and does not stop the run: the run stops only
\* on an exception of the job creation, the job read or the pod listing; every
\* image gets exactly one entry, in order, and a run that reaches its end has
\* an entry for every image.
C13_TransientFailureYieldsEmptyEntry ==
    /\ pc = "error" => raised \in FatalCalls
    /\ (ScanReturned /\ (phase # "Complete" \/ pod_name = None
                          \/ raised = "read_namespaced_pod_log")) => certs = <<>>
    /\ Len(result) + Len(todo) = NumImages
    /\ \A k \in DOMAIN result : result[k].image = k
    /\ pc = "done" => Len(result) = NumImages

C13_Witness ==
    /\ ScanReturned
    /\ Len(result) = 1
    /\ result[1].certs = <<>>
    /\ jobs[make_job_name(1)] = "Failed"
    /\ phase = "Complete"
    /\ Len(certs) = 2

\* C14 as stated: an exception raised by any API call of the orchestrator,
\* the pod log read included, ends the run.
C14_EveryApiErrorIsFatal ==
    raised # None => pc = "error"

\* C14: an exception of the job creation (other than 409), of the job read or
\* of the pod listing ends the run; an exception of the pod log read is
\* swallowed by get_pod_logs and the scan returns no certificates.
C14_ApiErrorsFatalExceptLogRead ==
    /\ raised \in FatalCalls => pc = "error"
    /\ raised = "read_namespaced_pod_log" =>
           /\ pc # "error"
           /\ ScanReturned => certs = <<>>

C14_Witness ==
    /\ pc = "error"
    /\ raised = "read_namespaced_job"
    /\ Len(result) = 1
    /\ created

\* C15: when the pod listing returns no pod labelled with the job's name, the
\* scan returns an empty list without raising, whatever phase the wait gave.
C15_NoPodReturnsEmpty ==
    [][(pc = "pod" /\ ~pods[job_name] /\ pc' # "pod" /\ raised' = None) =>
           (pc' = "return" /\ certs' = <<>> /\ pod_name' = None)]_vars

C15_Witness ==
    /\ ScanReturned
    /\ pod_name = None
    /\ phase = "Complete"
    /\ ~pods[job_name]

\* C18: while the scan of one image has waited for its whole timeout, the
\* jobs of the images still to be scanned have been submitted.
C18_SlowScanDoesNotHoldBackOthers ==
    (pc = "wait" /\ elapsed > TimeoutSec) =>
        \A k \in 2..Len(todo) : jobs[make_job_name(todo[k])] # "absent"

StepOrder ==
    { <<"main", "create">>, <<"create", "wait">>, <<"wait", "pod">>,
      <<"pod", "logs">>, <<"pod", "return">>, <<"logs", "parse">>,
      <<"parse", "return">>, <<"return", "main">>, <<"main", "done">>,
      <<"create", "error">>, <<"wait", "error">>, <<"pod", "error">> }

\* C20: one image's scan goes submit, wait, locate pod, fetch logs, parse,
\* return: the pod is looked up and the log read only after the wait has
\* given its outcome, and the log is parsed only after it has been read.
C20_StepsInOrder ==
    /\ [](/\ pc \in {"create", "wait"} => (pod_name = None /\ logs = None)
          /\ pc = "create" => (job_name = None /\ phase = None)
          /\ pc = "wait" => (job_name # None /\ phase = None)
          /\ WaitReturned => (job_name # None /\ phase \in Outcomes)
          /\ pc = "pod" => (pod_name = None /\ logs = None)
          /\ pc = "logs" => (pod_name # None /\ logs = None)
          /\ pc = "parse" => (pod_name # None /\ logs # None))
    /\ [][pc' # pc => <<pc, pc'>> \in StepOrder]_vars

C20_Witness ==
    /\ pc = "parse"
    /\ pod_name # None
    /\ logs # None
    /\ phase = "Complete"
    /\ Len(parse_logs(logs)) = 1

\* the jobs of the scan namespace that scan the image
JobsOfImage(image) ==
    {j \in JobNames : /\ jobs[j] # "absent"
                      /\ job_body[j].containers[1].env.TARGET_IMAGE = image}

-----------------------------------------------------------------------------
(* Properties of the classification engine (SpecClassify) *)

upper_char(c) ==
    IF \E i \in DOMAIN LowerLetters : LowerLetters[i] = c
    THEN UpperLetters[CHOOSE i \in DOMAIN LowerLetters : LowerLetters[i] = c]
    ELSE c

upper(s) == [i \in 1..Len(s) |-> upper_char(s[i])]

\* pattern p occurs in s at some offset, letters compared without case
CaseInsensitiveSubstring(p, s) ==
    \E k \in 0..(Len(s) - Len(p)) :
        \A i \in 1..Len(p) : lower_char(p[i]) = lower_char(s[k + i])

SomeMatch(pats, s) ==
    \E i \in DOMAIN pats : CaseInsensitiveSubstring(pats[i], s)

Classified == cpc = "classified"

\* C5: whenever some blacklist pattern is a case-insensitive substring of the
\* normalized subject, classify_cert returns RED, whatever the whitelist holds
\* and in whatever order the patterns are listed.
C5_BlacklistWins ==
    (Classified /\ SomeMatch(blacklist, norm)) => cls = "RED"

C5_Witness ==
    /\ Classified
    /\ Len(blacklist) = 2
    /\ ~CaseInsensitiveSubstring(blacklist[1], norm)
    /\ CaseInsensitiveSubstring(blacklist[2], norm)
    /\ SomeMatch(whitelist, norm)
    /\ cls = "RED"

\* C6: when no blacklist pattern matches the normalized subject and some
\* whitelist pattern is a case-insensitive substring of it, classify_cert
\* returns GREEN.
C6_WhitelistGreen ==
    (Classified /\ ~SomeMatch(blacklist, norm) /\ SomeMatch(whitelist, norm))
        => cls = "GREEN"

C6_Witness ==
    /\ Classified
    /\ blacklist # <<>>
    /\ ~SomeMatch(blacklist, norm)
    /\ Len(whitelist) = 2
    /\ ~CaseInsensitiveSubstring(whitelist[1], norm)
    /\ whitelist[2] = <<"A">>
    /\ contains(<<"a">>, norm)
    /\ cls = "GREEN"

\* C7: when neither a blacklist nor a whitelist pattern matches the normalized
\* subject (both lists empty included), classify_cert returns YELLOW; the
\* result is always one of RED, GREEN, YELLOW.
C7_UnmatchedYellow ==
    Classified =>
        /\ cls \in {"RED", "GREEN", "YELLOW"}
        /\ (~SomeMatch(blacklist, norm) /\ ~SomeMatch(whitelist, norm))
               => cls = "YELLOW"

C7_Witness ==
    /\ Classified
    /\ blacklist # <<>>
    /\ whitelist # <<>>
    /\ ~SomeMatch(blacklist, norm)
    /\ ~SomeMatch(whitelist, norm)
    /\ norm # <<>>
    /\ cls = "YELLOW"

\* C8: normalization is idempotent: normalizing the result of normalize_subject
\* gives that result again, for every subject (also one that carries the
\* prefix subject= more than once).
C8_NormalizeIdempotent ==
    cpc = "renormalized" => norm = subject

PrefixCaseVariants(s) ==
    {pre \o t : pre \in {<<>>, SubjectPrefix, CapitalPrefix},
                t \in {s, lower(s), upper(s)}}

\* C9: two subjects that differ only by a leading Subject= / subject= prefix
\* (present or absent) and by letter case get the same classification under
\* every policy.
C9_PrefixAndCaseInsensitive ==
    Classified =>
        \A v \in PrefixCaseVariants(subject) :
            classify_cert(v, whitelist, blacklist) = cls

-----------------------------------------------------------------------------
(* Properties of the report loop (SpecAnalyse) *)

Severity(c) == CASE c = "RED" -> 2 [] c = "YELLOW" -> 1 [] c = "GREEN" -> 0

Worst(flat) ==
    LET sev == {Severity(flat[i].classification) : i \in DOMAIN flat}
    IN  CHOOSE m \in sev : \A x \in sev : x <= m

\* C10: the status of every report entry is the maximum severity of its
\* certificates' classifications (RED > YELLOW > GREEN), and an entry with no
\* certificates is GREEN under every policy.
C10_StatusIsMaxSeverity ==
    \A i \in DOMAIN report :
        LET e == report[i]
        IN  /\ e.status \in {"RED", "YELLOW", "GREEN"}
            /\ IF e.certs = <<>>
               THEN e.status = "GREEN"
               ELSE Severity(e.status) = Worst(e.certs)

C10_Witness ==
    /\ Len(report) = 2
    /\ report[1].certs = <<>>
    /\ report[1].status = "GREEN"
    /\ Len(report[2].certs) = 2
    /\ report[2].certs[1].classification = "YELLOW"
    /\ report[2].certs[2].classification = "RED"
    /\ report[2].status = "RED"
    /\ blacklist # <<>>

-----------------------------------------------------------------------------
(* Properties of the HTML report (SpecAnalyse) *)

\* the <li> items of every certificate block of a row
ShownCerts(row) ==
    IF row.certs_html = NoCertsHtml THEN {}
    ELSE UNION {{row.certs_html[b].items[k] : k \in DOMAIN row.certs_html[b].items}
                    : b \in DOMAIN row.certs_html}

\* C22: the HTML has one row per report entry; every certificate of the
\* entry's certs list is shown in the row with its path and subject, and the
\* row shows the no-certificates mark only when the certs list is empty.
C22_RowsShowReportCerts ==
    apc = "html" =>
        /\ Len(rows_html) = Len(report)
        /\ \A i \in DOMAIN report :
              /\ \A k \in DOMAIN report[i].certs :
                    [path |-> esc(report[i].certs[k].path),
                     subject |-> esc(report[i].certs[k].subject)]
                        \in ShownCerts(rows_html[i])
              /\ rows_html[i].certs_html = NoCertsHtml => report[i].certs = <<>>

-----------------------------------------------------------------------------
(* Properties of the classified report (SpecAnalyse) *)

Perms(n) == {f \in [1..n -> 1..n] : \A i, j \in 1..n : f[i] = f[j] => i = j}

Permuted(s, f) == [i \in 1..Len(s) |-> s[f[i]]]

\* the certificates of a list, order and multiplicity forgotten
CertSet(cs) == {[path |-> cs[k].path, subject |-> cs[k].subject] : k \in DOMAIN cs}

\* C24: the status written for an image is the status of every permutation of
\* its certificate list and of the list with any one certificate repeated; two
\* entries holding the same certificates in any order and number have the same
\* status; and a subject gets the same verdict in whatever list it stands.
C24_StatusIgnoresOrderAndMultiplicity ==
    \A i \in DOMAIN report :
        LET cs == report[i].certs
        IN  /\ \A f \in Perms(Len(cs)) :
                  image_status(Permuted(cs, f)) = report[i].status
            /\ \A k \in DOMAIN cs :
                  image_status(Append(cs, cs[k])) = report[i].status
            /\ \A j \in DOMAIN report :
                  /\ CertSet(report[j].certs) = CertSet(cs)
                        => report[j].status = report[i].status
                  /\ \A k \in DOMAIN cs, l \in DOMAIN report[j].certs :
                        cs[k].subject = report[j].certs[l].subject
                            => cs[k].classification = report[j].certs[l].classification

C24_Witness ==
    /\ apc = "done"
    /\ Len(report) = 2
    /\ Len(report[1].certs) = 2
    /\ Len(report[2].certs) = 2
    /\ report[1].certs[1].classification = "GREEN"
    /\ report[1].certs[2].classification = "RED"
    /\ report[2].certs[1].classification = "RED"
    /\ report[2].certs[2].classification = "GREEN"
    /\ report[1].status = "RED"

\* C25: each pass of the loop takes the first entry still to be read and
\* appends one entry to the report with the same image and namespaces and as
\* many certificates, each with the path and the subject of the input
\* certificate at the same place, the subject as it was read; no other step
\* changes the report, and the report is written when the input is used up.
C25_ClassificationKeepsInput ==
    /\ [](/\ \A i \in DOMAIN report : report[i].image = i
          /\ apc = "done" => images_data = <<>>
          /\ apc = "append" =>
                /\ Len(flat_certs) = Len(Head(images_data).certs)
                /\ \A k \in DOMAIN flat_certs :
                      /\ flat_certs[k].path = Head(images_data).certs[k].path
                      /\ flat_certs[k].subject = Head(images_data).certs[k].subject)
    /\ [][IF apc = "append" /\ apc' = "entry"
          THEN LET src == Head(images_data)
                   out == report'[Len(report')]
               IN  /\ images_data' = Tail(images_data)
                   /\ Len(report') = Len(report) + 1
                   /\ SubSeq(report', 1, Len(report)) = report
                   /\ out.image = src.image
                   /\ out.namespaces = src.namespaces
                   /\ Len(out.certs) = Len(src.certs)
                   /\ \A k \in DOMAIN src.certs :
                         /\ out.certs[k].path = src.certs[k].path
                         /\ out.certs[k].subject = src.certs[k].subject
          ELSE report' = report /\ images_data' = images_data]_vars

C25_Witness ==
    /\ apc = "done"
    /\ Len(report) = 2
    /\ Len(report[2].certs) = 2
    /\ report[2].certs[2].subject = CapitalPrefix \o <<"B">>
    /\ report[2].certs[2].classification = "RED"
    /\ report[2].certs[1].subject = <<"a">>

-----------------------------------------------------------------------------
(* Properties of the report upload (SpecUpsert) *)

IsWrite(c) == c.call # "get_namespaced_custom_object"

Writes(u) == SelectSeq(upserter[u].calls, IsWrite)

Failed(u) == upserter[u].pc = "error"

\* what the claim says of the read and the one write of a call
OneWriteAfterRead(u) ==
    LET calls == upserter[u].calls
    IN  /\ Len(Writes(u)) <= 1
        /\ upserter[u].pc = "done" => Len(Writes(u)) = 1
        /\ Writes(u) # <<>> =>
              /\ calls[1].call = "get_namespaced_custom_object"
              /\ calls[1].status = 404 =>
                    Writes(u)[1].call = "create_namespaced_custom_object"
              /\ calls[1].status = 200 =>
                    Writes(u)[1].call = "patch_namespaced_custom_object"
              /\ calls[1].status \in {200, 404}
        /\ (calls # <<>> /\ calls[1].status \in OtherStatuses) =>
              Failed(u) /\ Writes(u) = <<>>

\* C26: every call of upsert_report issues at most one write and, when it
\* returns, exactly one: the create after a read answered 404, the patch after
\* a read that found the object; a read answered with another status ends the
\* call with no write; and with two calls for the same name under way, no call
\* fails in its write.
C26_OneWriteAndNoFailure ==
    \A u \in Upserters :
        /\ OneWriteAfterRead(u)
        /\ Failed(u) => Writes(u) = <<>>

====
